---- MODULE Spec2Model ----
(***************************************************************************)
(* Model of the S3 connection pool of node-red-contrib-aws-s3-pro          *)
(* (s3-connection-pool.js): PoolEntry, S3ConnectionPool and the module     *)
(* level singleton (getPool / getPooledS3Client / shutdownPool).           *)
(*                                                                         *)
(* JavaScript runs every handler to completion on one thread, so each      *)
(* public method, timer callback and signal listener is one atomic action. *)
(* A JavaScript string is a sequence of one-character strings; an optional *)
(* property is a sequence of length 0 (undefined) or 1 (the value).        *)
(***************************************************************************)
EXTENDS Integers, Sequences, FiniteSets, TLC

\* ------------------------------------------------------------------ bounds
MaxTime == 2        \* the clock stops advancing here
MaxEntries == 3     \* PoolEntry objects constructed in one run
MaxPools == 2       \* S3ConnectionPool objects constructed in one run
MaxUse == 3         \* reuse is explored up to this use count
MaxThrows == 1      \* PoolEntry.destroy() calls in which an agent throws
MaxOps == 4         \* operations (calls, timer callbacks, signals) in one run
MaxInFlight == 2    \* requests awaiting s3.send at one time

\* ----------------------------------------------------- program constants
\* The clock counts units of 30 minutes.
MsPerUnit == 30 * 60 * 1000
DEFAULT_TTL == (30 * 60 * 1000) \div MsPerUnit

\* --------------------------------------------------------------- strings
Undefined == <<>>
Some(v) == <<v>>
IsDefined(m) == Len(m) = 1
Val(m) == m[1]

\* JavaScript truthiness of a string: only "" is falsy.
Truthy(s) == Len(s) > 0

US_EAST_1 == <<"u", "s", "-", "e", "a", "s", "t", "-", "1">>
EU_WEST_1 == <<"e", "u", "-", "w", "e", "s", "t", "-", "1">>

K_region == <<"{", "\"", "r", "e", "g", "i", "o", "n", "\"", ":">>
K_endpoint == <<",", "\"", "e", "n", "d", "p", "o", "i", "n", "t", "\"", ":">>
K_forcePathStyle == <<",", "\"", "f", "o", "r", "c", "e", "P", "a", "t", "h", "S", "t", "y", "l", "e", "\"", ":">>
K_tls == <<",", "\"", "t", "l", "s", "\"", ":">>
K_credentials == <<",", "\"", "c", "r", "e", "d", "e", "n", "t", "i", "a", "l", "s", "\"", ":">>
K_accessKeyId == <<"{", "\"", "a", "c", "c", "e", "s", "s", "K", "e", "y", "I", "d", "\"", ":">>
K_secretAccessKey == <<",", "\"", "s", "e", "c", "r", "e", "t", "A", "c", "c", "e", "s", "s", "K", "e", "y", "\"", ":">>
K_useIamRole == <<",", "\"", "u", "s", "e", "I", "a", "m", "R", "o", "l", "e", "\"", ":">>
J_null == <<"n", "u", "l", "l">>
J_true == <<"t", "r", "u", "e">>
J_false == <<"f", "a", "l", "s", "e">>

\* JSON.stringify of a string: quoted, with the quote and the backslash escaped.
RECURSIVE JsonEscape(_)
JsonEscape(s) ==
    IF s = <<>> THEN <<>>
    ELSE (IF Head(s) \in {"\"", "\\"} THEN <<"\\", Head(s)>> ELSE <<Head(s)>>)
         \o JsonEscape(Tail(s))

JsonString(s) == <<"\"">> \o JsonEscape(s) \o <<"\"">>

JsonBool(b) == IF b THEN J_true ELSE J_false

\* JSON.stringify of the {accessKeyId, secretAccessKey} object.
JsonCredentials(c) ==
    K_accessKeyId \o JsonString(c.accessKeyId)
    \o K_secretAccessKey \o JsonString(c.secretAccessKey) \o <<"}">>

\* Variant of Normalize: the secret is left out of the credentials.
Normalize_NoSecret(options) ==
    [region |-> IF IsDefined(options.region) /\ Truthy(Val(options.region))
                THEN Val(options.region) ELSE US_EAST_1,
     endpoint |-> IF IsDefined(options.endpoint) /\ Truthy(Val(options.endpoint))
                  THEN Some(Val(options.endpoint)) ELSE Undefined,
     forcePathStyle |-> IF IsDefined(options.forcePathStyle)
                            /\ Val(options.forcePathStyle)
                        THEN TRUE ELSE FALSE,
     tls |-> IF IsDefined(options.tls) THEN Val(options.tls) ELSE TRUE,
     credentials |-> IF IsDefined(options.credentials)
                     THEN Some([accessKeyId |-> Val(options.credentials).accessKeyId,
                                secretAccessKey |-> <<>>])
                     ELSE Undefined,
     useIamRole |-> ~IsDefined(options.credentials)]

\* The normalized object of _generateKey.
Normalize(options) ==
    [region |-> IF IsDefined(options.region) /\ Truthy(Val(options.region))
                THEN Val(options.region) ELSE US_EAST_1,
     endpoint |-> IF IsDefined(options.endpoint) /\ Truthy(Val(options.endpoint))
                  THEN Some(Val(options.endpoint)) ELSE Undefined,
     forcePathStyle |-> IF IsDefined(options.forcePathStyle)
                            /\ Val(options.forcePathStyle)
                        THEN TRUE ELSE FALSE,
     tls |-> IF IsDefined(options.tls) THEN Val(options.tls) ELSE TRUE,
     credentials |-> IF IsDefined(options.credentials)
                     THEN Some([accessKeyId |-> Val(options.credentials).accessKeyId,
                                secretAccessKey |-> Val(options.credentials).secretAccessKey])
                     ELSE Undefined,
     useIamRole |-> ~IsDefined(options.credentials)]

\* JSON.stringify(normalized), property by property in insertion order.
JsonStringify(n) ==
    K_region \o JsonString(n.region)
    \o K_endpoint \o (IF IsDefined(n.endpoint) THEN JsonString(Val(n.endpoint)) ELSE J_null)
    \o K_forcePathStyle \o JsonBool(n.forcePathStyle)
    \o K_tls \o JsonBool(n.tls)
    \o K_credentials \o (IF IsDefined(n.credentials)
                         THEN JsonCredentials(Val(n.credentials)) ELSE J_null)
    \o K_useIamRole \o JsonBool(n.useIamRole)
    \o <<"}">>

_generateKey(options) == JsonStringify(Normalize(options))

\* ------------------------------------------------------------ configurations
ACCESS_A == <<"A", "K">>
ACCESS_B == <<"B", "K">>
SECRET_X == <<"x", "\"">>
SECRET_Y == <<"y", "\\">>
ENDPOINT_H == <<"h", ":", "9">>

Optional(S) == {Undefined} \cup {Some(v) : v \in S}

\* The connection configurations _generateKey is examined on. A configuration
\* names its region: configureS3 throws before calling the pool when it has none.
Configurations ==
    [region : {Some(US_EAST_1), Some(EU_WEST_1)},
     endpoint : Optional({ENDPOINT_H}),
     forcePathStyle : Optional(BOOLEAN),
     tls : Optional(BOOLEAN),
     credentials : Optional({[accessKeyId |-> ACCESS_A, secretAccessKey |-> SECRET_X],
                             [accessKeyId |-> ACCESS_B, secretAccessKey |-> SECRET_X],
                             [accessKeyId |-> ACCESS_A, secretAccessKey |-> SECRET_Y]})]

BareOptions ==
    [region |-> Undefined, endpoint |-> Undefined, forcePathStyle |-> Undefined,
     tls |-> Undefined, credentials |-> Undefined]

\* The option objects the callers of the pool pass in the explored runs.
CfgNoRegion == BareOptions
CfgUsEast == [BareOptions EXCEPT !.region = Some(US_EAST_1)]
CfgEuWest == [BareOptions EXCEPT !.region = Some(EU_WEST_1)]
PoolConfigs == {CfgNoRegion, CfgUsEast, CfgEuWest}

\* The name of the message property a node's region is configured to be read from,
\* and the option object configureS3 builds when that name is used as the region.
REGION_PATH == <<"r", "e", "g", "i", "o", "n">>
CfgRegionPath == [BareOptions EXCEPT !.region = Some(REGION_PATH)]
KeyedConfigs == PoolConfigs \cup {CfgRegionPath}

\* this._generateKey(options) for the option objects of the runs, tabulated.
GeneratedKey == [o \in KeyedConfigs |-> _generateKey(o)]

\* The options objects passed to the S3ConnectionPool constructor: none, or {ttl}.
PoolOptions == {Undefined, Some([ttl |-> 2])}

\* ------------------------------------------------------------------- state
VARIABLES
    now,            \* Date.now()
    pools,          \* the S3ConnectionPool objects constructed so far
    poolInstance,   \* the module's singleton: 0 (null) or an index of pools
    entries,        \* the PoolEntry objects constructed so far
    owner,          \* for each PoolEntry, the pool whose getClient constructed it
    exited,         \* the process has ended
    lastOp,         \* the operation that ran last, and what it returned
    returned,       \* for each stored PoolEntry, the calls that returned its client
    inflight,       \* the clients of the input handlers suspended at await s3.send
    ops,            \* the number of operations run so far
    args,           \* a pair of option objects handed to _generateKey
    keys            \* the pair of fingerprints _generateKey returned for args

vars == <<now, pools, poolInstance, entries, owner, exited, lastOp, returned,
          inflight, ops, args, keys>>

Null == 0

EmptyMap == [k \in {} |-> 0]
MapSet(m, k, v) == [x \in (DOMAIN m) \cup {k} |-> IF x = k THEN v ELSE m[x]]
MapDelete(m, k) == [x \in (DOMAIN m) \ {k} |-> m[x]]
MapValues(m) == {m[k] : k \in DOMAIN m}

\* What Agent.destroy() does during one PoolEntry.destroy(): both calls return,
\* or the call on the named agent throws.
FailModes == {"none", "https", "http"}

\* ---------------------------------------------------------------- PoolEntry
\* new PoolEntry(client, httpsAgent, httpAgent), built by _createClient(options):
\* the client is a new S3Client holding the caller's options and the two agents.
PoolEntry(id, options, t) ==
    [client |-> id, options |-> options,
     httpsAgent |-> "open", httpAgent |-> "open",
     createdAt |-> t, lastUsedAt |-> t, useCount |-> 0,
     destroyed |-> FALSE]

\* Variant of touch: a reuse restarts the entry's age.
touch_Renew(e, t) == [e EXCEPT !.lastUsedAt = t, !.useCount = @ + 1, !.createdAt = t]

\* Variant of touch: the timestamp is refreshed, the counter is not.
touch_NoCount(e, t) == [e EXCEPT !.lastUsedAt = t]

touch(e, t) == [e EXCEPT !.lastUsedAt = t, !.useCount = @ + 1]

\* Variants of isExpired: expiry at age = ttl, and expiry by idle time.
isExpired_AtTtl(e, ttl, t) == (t - e.createdAt) >= ttl
isExpired_Idle(e, ttl, t) == (t - e.lastUsedAt) > ttl

isExpired(e, ttl, t) == (t - e.createdAt) > ttl

\* destroy(): httpsAgent.destroy(), then httpAgent.destroy(), inside one try block
\* whose catch discards the error. `destroyed` records that destroy() has run.
\* An agent is "open" until its destroy() is called; the call leaves it
\* "destroyed" when it returns and "failed" when it throws. A throw leaves the
\* try block, so the statements after it do not run.
destroy(e, fail) ==
    [e EXCEPT !.destroyed = TRUE,
              !.httpsAgent = IF fail = "https" THEN "failed" ELSE "destroyed",
              !.httpAgent = IF fail = "https" THEN @
                            ELSE IF fail = "http" THEN "failed" ELSE "destroyed"]

\* A PoolEntry deleted from its Map is unreachable: nothing reads its timestamps,
\* counter or options again. What remains of it is its client and the two agents.
Collected(e) ==
    [e EXCEPT !.createdAt = 0, !.lastUsedAt = 0, !.useCount = 0,
              !.options = BareOptions]

\* entry.destroy() followed by the Map dropping the entry.
destroyAndDelete(e, fail) == Collected(destroy(e, fail))

\* --------------------------------------------------------- S3ConnectionPool
\* The objects reachable from the module: what the operations below transform.
Heap == [pools |-> pools, entries |-> entries, owner |-> owner,
         poolInstance |-> poolInstance]

Signals == {"SIGINT", "SIGTERM", "exit"}

\* new S3ConnectionPool(options): an empty Map, the ttl, a running cleanup
\* interval, and one process.once listener for each of SIGINT, SIGTERM and exit.
S3ConnectionPool(options) ==
    [pool |-> EmptyMap,
     ttl |-> IF IsDefined(options) /\ Val(options).ttl # 0
             THEN Val(options).ttl ELSE DEFAULT_TTL,
     cleanupTimer |-> TRUE,
     listeners |-> Signals]

\* Variant of getClient: no lookup, every call constructs and stores an entry.
getClient_AlwaysCreate(h, p, options, t, fail) ==
    LET id == Len(h.entries) + 1
        fresh == touch(PoolEntry(id, options, t), t)
    IN  [heap |-> [h EXCEPT !.entries = Append(@, fresh),
                            !.owner = Append(@, p),
                            !.pools[p].pool = MapSet(@, GeneratedKey[options], id)],
         result |-> fresh.client,
         replaced |-> Null]

\* Variant of getClient: a miss or an expired entry empties the whole Map.
getClient_DropOthers(h, p, options, t, fail) ==
    LET key == GeneratedKey[options]
        store == h.pools[p].pool
        found == key \in DOMAIN store
        entry == IF found THEN store[key] ELSE Null
    IN  IF found /\ ~isExpired(h.entries[entry], h.pools[p].ttl, t)
        THEN [heap |-> [h EXCEPT !.entries[entry] = touch(@, t)],
              result |-> h.entries[entry].client,
              replaced |-> Null]
        ELSE LET ents == [e \in DOMAIN h.entries |->
                             IF e \in MapValues(store)
                             THEN destroyAndDelete(h.entries[e], fail)
                             ELSE h.entries[e]]
                 id == Len(h.entries) + 1
                 fresh == touch(PoolEntry(id, options, t), t)
             IN  [heap |-> [h EXCEPT !.entries = Append(ents, fresh),
                                     !.owner = Append(@, p),
                                     !.pools[p].pool = MapSet(EmptyMap, key, id)],
                  result |-> fresh.client,
                  replaced |-> entry]

\* Variant of getClient: the entry it constructs is stored without being touched.
getClient_NoFirstTouch(h, p, options, t, fail) ==
    LET key == GeneratedKey[options]
        store == h.pools[p].pool
        found == key \in DOMAIN store
        entry == IF found THEN store[key] ELSE Null
    IN  IF found /\ ~isExpired(h.entries[entry], h.pools[p].ttl, t)
        THEN [heap |-> [h EXCEPT !.entries[entry] = touch(@, t)],
              result |-> h.entries[entry].client,
              replaced |-> Null]
        ELSE LET ents == IF found
                         THEN [h.entries EXCEPT ![entry] = destroyAndDelete(@, fail)]
                         ELSE h.entries
                 store1 == IF found THEN MapDelete(store, key) ELSE store
                 id == Len(h.entries) + 1
                 fresh == PoolEntry(id, options, t)
             IN  [heap |-> [h EXCEPT !.entries = Append(ents, fresh),
                                     !.owner = Append(@, p),
                                     !.pools[p].pool = MapSet(store1, key, id)],
                  result |-> fresh.client,
                  replaced |-> entry]

\* getClient(options) on pools[p] at time t; `fail` is what destroying the stale
\* entry's agents does. Returns the new heap, the client returned and the stale
\* entry that was replaced (Null if none).
getClient(h, p, options, t, fail) ==
    LET key == GeneratedKey[options]
        store == h.pools[p].pool
        found == key \in DOMAIN store
        entry == IF found THEN store[key] ELSE Null
    IN  IF found /\ ~isExpired(h.entries[entry], h.pools[p].ttl, t)
        THEN [heap |-> [h EXCEPT !.entries[entry] = touch(@, t)],
              result |-> h.entries[entry].client,
              replaced |-> Null]
        ELSE LET ents == IF found
                         THEN [h.entries EXCEPT ![entry] = destroyAndDelete(@, fail)]
                         ELSE h.entries
                 store1 == IF found THEN MapDelete(store, key) ELSE store
                 id == Len(h.entries) + 1
                 fresh == touch(PoolEntry(id, options, t), t)
             IN  [heap |-> [h EXCEPT !.entries = Append(ents, fresh),
                                     !.owner = Append(@, p),
                                     !.pools[p].pool = MapSet(store1, key, id)],
                  result |-> fresh.client,
                  replaced |-> entry]

\* Variant of cleanup: the expired entries are destroyed and stay in the Map.
cleanup_NoDelete(h, p, t, fails) ==
    LET store == h.pools[p].pool
        gone == {store[k] : k \in {x \in DOMAIN store :
                                     isExpired(h.entries[store[x]], h.pools[p].ttl, t)}}
    IN  [h EXCEPT !.entries = [e \in DOMAIN h.entries |->
                                   IF e \in gone THEN destroy(h.entries[e], fails[e])
                                   ELSE h.entries[e]]]

\* Variant of cleanup: an expired entry whose client has a request in flight is
\* left in the Map.
cleanup_SpareInFlight(h, p, t, fails) ==
    LET store == h.pools[p].pool
        busy == {inflight[i] : i \in DOMAIN inflight}
        expiredKeys == {k \in DOMAIN store :
                            /\ isExpired(h.entries[store[k]], h.pools[p].ttl, t)
                            /\ store[k] \notin busy}
        gone == {store[k] : k \in expiredKeys}
    IN  [h EXCEPT !.entries = [e \in DOMAIN h.entries |->
                                   IF e \in gone THEN destroyAndDelete(h.entries[e], fails[e])
                                   ELSE h.entries[e]],
                  !.pools[p].pool = [k \in (DOMAIN store) \ expiredKeys |-> store[k]]]

\* Variant of cleanup: an error thrown while an entry is destroyed leaves the
\* loop, so that entry stays in the Map.
cleanup_Abort(h, p, t, fails) ==
    LET store == h.pools[p].pool
        expiredKeys == {k \in DOMAIN store :
                            isExpired(h.entries[store[k]], h.pools[p].ttl, t)}
        gone == {store[k] : k \in expiredKeys}
        kept == {k \in expiredKeys : fails[store[k]] # "none"}
    IN  [h EXCEPT !.entries = [e \in DOMAIN h.entries |->
                                   IF e \in gone
                                   THEN (IF fails[e] # "none"
                                         THEN destroy(h.entries[e], fails[e])
                                         ELSE destroyAndDelete(h.entries[e], fails[e]))
                                   ELSE h.entries[e]],
                  !.pools[p].pool = [k \in ((DOMAIN store) \ expiredKeys) \cup kept
                                       |-> store[k]]]

\* cleanup() on pools[p] at time t: collect the expired keys, then destroy and
\* delete each. fails[e] is what destroying entry e's agents does.
cleanup(h, p, t, fails) ==
    LET store == h.pools[p].pool
        expiredKeys == {k \in DOMAIN store :
                            isExpired(h.entries[store[k]], h.pools[p].ttl, t)}
        gone == {store[k] : k \in expiredKeys}
    IN  [h EXCEPT !.entries = [e \in DOMAIN h.entries |->
                                   IF e \in gone THEN destroyAndDelete(h.entries[e], fails[e])
                                   ELSE h.entries[e]],
                  !.pools[p].pool = [k \in (DOMAIN store) \ expiredKeys |-> store[k]]]

\* Variant of clear: the Map is emptied and no entry is destroyed.
clear_NoDestroy(h, p, fails) ==
    [h EXCEPT !.entries = [e \in DOMAIN h.entries |->
                               IF e \in MapValues(h.pools[p].pool)
                               THEN Collected(h.entries[e]) ELSE h.entries[e]],
              !.pools[p].pool = EmptyMap]

\* Variant of clear: the interval is cleared as well.
clear_StopTimer(h, p, fails) ==
    LET held == MapValues(h.pools[p].pool)
    IN  [h EXCEPT !.entries = [e \in DOMAIN h.entries |->
                                   IF e \in held THEN destroyAndDelete(h.entries[e], fails[e])
                                   ELSE h.entries[e]],
                  !.pools[p].cleanupTimer = FALSE,
                  !.pools[p].pool = EmptyMap]

\* clear() on pools[p]: destroy every entry, then empty the Map.
clear(h, p, fails) ==
    LET held == MapValues(h.pools[p].pool)
    IN  [h EXCEPT !.entries = [e \in DOMAIN h.entries |->
                                   IF e \in held THEN destroyAndDelete(h.entries[e], fails[e])
                                   ELSE h.entries[e]],
                  !.pools[p].pool = EmptyMap]

\* key.substring(0, 100) + '...'
StatsKey(key) ==
    SubSeq(key, 1, IF Len(key) < 100 THEN Len(key) ELSE 100) \o <<".", ".", ".">>

\* The Map's entries in iteration order. A Map iterates in insertion order, and
\* every set() is for a key that is absent and an entry just constructed, so the
\* order is that of construction.
RECURSIVE MapEntries(_, _)
MapEntries(store, from) ==
    IF \A k \in DOMAIN store : store[k] < from THEN <<>>
    ELSE LET first == CHOOSE k \in DOMAIN store :
                          /\ store[k] >= from
                          /\ \A x \in DOMAIN store : store[x] >= from => store[k] <= store[x]
         IN  <<first>> \o MapEntries(store, store[first] + 1)

\* The snapshot getStats builds from the Map of pools[p] at time t.
Snapshot(h, p, t) ==
    LET store == h.pools[p].pool
        order == MapEntries(store, 1)
    IN  [totalConnections |-> Cardinality(DOMAIN store),
         connections |->
            [i \in 1..Len(order) |->
                LET entry == h.entries[store[order[i]]]
                IN  [key |-> StatsKey(order[i]),
                     age |-> t - entry.createdAt,
                     lastUsed |-> t - entry.lastUsedAt,
                     useCount |-> entry.useCount,
                     isExpired |-> isExpired(entry, h.pools[p].ttl, t)]]]

\* Variant of getStats: the entries it reports as expired are swept.
getStats_Evict(h, p, t) ==
    [heap |-> LET store == h.pools[p].pool
                  expiredKeys == {k \in DOMAIN store :
                                      isExpired(h.entries[store[k]], h.pools[p].ttl, t)}
              IN  [h EXCEPT !.entries =
                                [e \in DOMAIN h.entries |->
                                    IF e \in {store[k] : k \in expiredKeys}
                                    THEN destroyAndDelete(h.entries[e], "none")
                                    ELSE h.entries[e]],
                            !.pools[p].pool =
                                [k \in (DOMAIN store) \ expiredKeys |-> store[k]]],
     stats |-> Snapshot(h, p, t)]

\* getStats() on pools[p] at time t: the heap it leaves and the snapshot it returns.
getStats(h, p, t) == [heap |-> h, stats |-> Snapshot(h, p, t)]

\* Variant of shutdown: the interval is left running.
shutdown_KeepTimer(h, p, fails) == clear(h, p, fails)

\* shutdown() on pools[p]: clearInterval, destroy every entry, empty the Map.
shutdown(h, p, fails) ==
    LET held == MapValues(h.pools[p].pool)
    IN  [h EXCEPT !.entries = [e \in DOMAIN h.entries |->
                                   IF e \in held THEN destroyAndDelete(h.entries[e], fails[e])
                                   ELSE h.entries[e]],
                  !.pools[p].cleanupTimer = FALSE,
                  !.pools[p].pool = EmptyMap]

\* ------------------------------------------------------------ the singleton
\* Variant of getPool: every call constructs a pool and makes it the singleton.
getPool_AlwaysNew(h, options) ==
    [h EXCEPT !.pools = Append(@, S3ConnectionPool(options)),
              !.poolInstance = Len(h.pools) + 1]

\* getPool(options): construct the singleton if there is none.
getPool(h, options) ==
    IF h.poolInstance = Null
    THEN [h EXCEPT !.pools = Append(@, S3ConnectionPool(options)),
                   !.poolInstance = Len(h.pools) + 1]
    ELSE h

\* getPooledS3Client(options): getPool().getClient(options).
getPooledS3Client(h, options, t, fail) ==
    LET h1 == getPool(h, Undefined)
    IN  getClient(h1, h1.poolInstance, options, t, fail)

\* shutdownPool(): shut the singleton down and forget it.
shutdownPool(h, fails) ==
    IF h.poolInstance # Null
    THEN [shutdown(h, h.poolInstance, fails) EXCEPT !.poolInstance = Null]
    ELSE h

\* The process emits `sig`: every pool whose once-listener for it is still
\* registered runs shutdown(), and the listener is removed.
RECURSIVE emit(_, _, _, _)
emit(h, sig, fails, p) ==
    IF p > Len(h.pools) THEN h
    ELSE IF sig \in h.pools[p].listeners
         THEN emit([shutdown(h, p, fails) EXCEPT !.pools[p].listeners = @ \ {sig}],
                   sig, fails, p + 1)
         ELSE emit(h, sig, fails, p + 1)

\* ------------------------------------------------------- the node (aws-s3.js)
\* getValue(value, type, msg): nothing for an empty value; the message property
\* named by the value for type 'msg'; the value itself otherwise.
getValue(value, type, msg) ==
    IF ~Truthy(value) THEN Undefined
    ELSE IF type = "msg"
         THEN (IF value \in DOMAIN msg THEN Some(msg[value]) ELSE Undefined)
         ELSE Some(value)

\* getValue(awsConfig.region, awsConfig.regionType || 'str', msg) || awsConfig.region
regionValue(awsConfig, msg) ==
    LET v == getValue(awsConfig.region,
                      IF IsDefined(awsConfig.regionType)
                      THEN Val(awsConfig.regionType) ELSE "str", msg)
    IN  IF IsDefined(v) /\ Truthy(Val(v)) THEN v
        ELSE IF Truthy(awsConfig.region) THEN Some(awsConfig.region)
        ELSE Undefined

\* The options object configureS3 builds once it has a region.
configureOptions(awsConfig, msg) ==
    LET endpoint == getValue(awsConfig.endpoint, "str", msg)
        accessKeyId == getValue(awsConfig.accessKeyId, "str", msg)
        secretAccessKey == getValue(awsConfig.secretAccessKey, "str", msg)
        hasEndpoint == IsDefined(endpoint) /\ Truthy(Val(endpoint))
    IN  [region |-> regionValue(awsConfig, msg),
         endpoint |-> IF hasEndpoint THEN endpoint ELSE Undefined,
         forcePathStyle |-> IF hasEndpoint THEN Some(awsConfig.forcepathstyle)
                            ELSE Undefined,
         tls |-> IF hasEndpoint THEN Some(~awsConfig.skiptlsverify) ELSE Undefined,
         credentials |-> IF ~awsConfig.useIamRole /\ IsDefined(accessKeyId)
                            /\ IsDefined(secretAccessKey)
                         THEN Some([accessKeyId |-> Val(accessKeyId),
                                    secretAccessKey |-> Val(secretAccessKey)])
                         ELSE Undefined]

\* Variant of configureS3: no region check, the options go to the pool as built.
configureS3_NoCheck(h, awsConfig, msg, t, fail) ==
    LET r == getPooledS3Client(h, configureOptions(awsConfig, msg), t, fail)
    IN  [heap |-> r.heap, result |-> r.result, threw |-> FALSE]

\* configureS3(node, msg, getValue): throws when the region is missing, else
\* returns getPooledS3Client(options).
configureS3(h, awsConfig, msg, t, fail) ==
    IF ~IsDefined(regionValue(awsConfig, msg))
    THEN [heap |-> h, result |-> Null, threw |-> TRUE]
    ELSE LET r == getPooledS3Client(h, configureOptions(awsConfig, msg), t, fail)
         IN  [heap |-> r.heap, result |-> r.result, threw |-> FALSE]

\* The node configurations and messages of the explored runs: a node with no
\* region, one with a literal region, and one that reads its region from
\* msg.region; a message with and one without that property.
BareAwsConfig ==
    [region |-> <<>>, regionType |-> Undefined, endpoint |-> <<>>,
     forcepathstyle |-> FALSE, skiptlsverify |-> FALSE, useIamRole |-> TRUE,
     accessKeyId |-> <<>>, secretAccessKey |-> <<>>]
AwsConfigs ==
    {BareAwsConfig,
     [BareAwsConfig EXCEPT !.regionType = Some("msg")],
     [BareAwsConfig EXCEPT !.region = US_EAST_1],
     [BareAwsConfig EXCEPT !.region = REGION_PATH, !.regionType = Some("msg")]}
Msgs == {EmptyMap, [k \in {REGION_PATH} |-> EU_WEST_1]}

\* ------------------------------------------------------------------ actions
NoOp == [op |-> "init", pool |-> Null, result |-> Null, destroyed |-> {},
         threw |-> FALSE, stats |-> Null]

\* The entries on which an operation leading to heap h ran destroy().
Destroyed(h) ==
    {e \in DOMAIN entries : h.entries[e].destroyed /\ ~entries[e].destroyed}

Init ==
    /\ now = 0
    /\ pools = <<>>
    /\ poolInstance = Null
    /\ entries = <<>>
    /\ owner = <<>>
    /\ exited = FALSE
    /\ lastOp = NoOp
    /\ returned = <<>>
    /\ inflight = <<>>
    /\ ops = 0
    /\ args = <<>>
    /\ keys = <<>>

PoolIds == 1..Len(pools)
\* What destroying each entry's agents does during one operation: no agent
\* throws, or one agent of one entry that a Map still holds throws.
Stored == UNION {MapValues(pools[p].pool) : p \in PoolIds}
NoFails == [e \in 1..Len(entries) |-> "none"]
FailMaps ==
    {NoFails} \cup
    {[NoFails EXCEPT ![e] = m] : e \in Stored, m \in {"https", "http"}}

\* The explored runs stay within the bounds.
WithinBounds(h) ==
    /\ Len(h.pools) <= MaxPools
    /\ Len(h.entries) <= MaxEntries
    /\ \A e \in DOMAIN h.entries : h.entries[e].useCount <= MaxUse
    /\ Cardinality({e \in DOMAIN h.entries :
                        h.entries[e].destroyed /\ h.entries[e].httpAgent # "destroyed"})
           <= MaxThrows

\* The Map values of every pool of heap h.
StoredIn(h) == UNION {MapValues(h.pools[p].pool) : p \in DOMAIN h.pools}

\* The operation leads to heap h and returns the client of entry res (Null: none).
Install(h, res) ==
    /\ WithinBounds(h)
    /\ ops < MaxOps
    /\ ops' = ops + 1
    /\ returned' = [e \in DOMAIN h.entries |->
                        IF e \in StoredIn(h)
                        THEN (IF e \in DOMAIN returned THEN returned[e] ELSE 0)
                             + (IF e = res THEN 1 ELSE 0)
                        ELSE 0]
    /\ pools' = h.pools
    /\ entries' = h.entries
    /\ owner' = h.owner
    /\ poolInstance' = h.poolInstance

\* Time passes.
Tick ==
    /\ ~exited
    /\ now < MaxTime
    /\ now' = now + 1
    /\ lastOp' = [NoOp EXCEPT !.op = "tick"]
    /\ UNCHANGED <<pools, poolInstance, entries, owner, exited, returned, ops, args, keys, inflight>>

GetPool(options) ==
    /\ ~exited
    /\ \E h \in {getPool(Heap, options)} :
           /\ Install(h, Null)
           /\ lastOp' = [NoOp EXCEPT !.op = "getPool", !.pool = h.poolInstance]
    /\ UNCHANGED <<now, exited, args, keys, inflight>>

GetPooledS3Client(options) ==
    /\ ~exited
    /\ \E fail \in FailModes :
         \E r \in {getPooledS3Client(Heap, options, now, fail)} :
             /\ Install(r.heap, r.result)
             /\ lastOp' = [NoOp EXCEPT !.op = "getPooledS3Client",
                                       !.pool = r.heap.poolInstance,
                                       !.result = r.result,
                                       !.destroyed = Destroyed(r.heap)]
    /\ UNCHANGED <<now, exited, args, keys, inflight>>

ShutdownPool ==
    /\ ~exited
    /\ \E fails \in FailMaps : \E h \in {shutdownPool(Heap, fails)} :
           /\ Install(h, Null)
           /\ lastOp' = [NoOp EXCEPT !.op = "shutdownPool", !.pool = poolInstance, !.destroyed = Destroyed(h)]
    /\ UNCHANGED <<now, exited, args, keys, inflight>>

\* pool.getClient(options) on a pool object the caller holds.
GetClient(p, options) ==
    /\ ~exited
    /\ \E fail \in FailModes :
         \E r \in {getClient(Heap, p, options, now, fail)} :
             /\ Install(r.heap, r.result)
             /\ lastOp' = [NoOp EXCEPT !.op = "getClient", !.pool = p,
                                       !.result = r.result,
                                       !.destroyed = Destroyed(r.heap)]
    /\ UNCHANGED <<now, exited, args, keys, inflight>>

\* The setInterval callback of pools[p]: runs only while the interval is set.
CleanupTimer(p) ==
    /\ ~exited
    /\ pools[p].cleanupTimer
    /\ \E fails \in FailMaps : \E h \in {cleanup(Heap, p, now, fails)} :
           /\ Install(h, Null)
           /\ lastOp' = [NoOp EXCEPT !.op = "cleanupTimer", !.pool = p, !.destroyed = Destroyed(h)]
    /\ UNCHANGED <<now, exited, args, keys, inflight>>

Clear(p) ==
    /\ ~exited
    /\ \E fails \in FailMaps : \E h \in {clear(Heap, p, fails)} :
           /\ Install(h, Null)
           /\ lastOp' = [NoOp EXCEPT !.op = "clear", !.pool = p, !.destroyed = Destroyed(h)]
    /\ UNCHANGED <<now, exited, args, keys, inflight>>

Shutdown(p) ==
    /\ ~exited
    /\ \E fails \in FailMaps : \E h \in {shutdown(Heap, p, fails)} :
           /\ Install(h, Null)
           /\ lastOp' = [NoOp EXCEPT !.op = "shutdown", !.pool = p, !.destroyed = Destroyed(h)]
    /\ UNCHANGED <<now, exited, args, keys, inflight>>

\* SIGINT or SIGTERM arrives while a listener for it is registered: the
\* listeners run and the process keeps running. (With no listener the signal
\* ends the process at once, and nothing of the pool runs again.)
Signal(sig) ==
    /\ ~exited
    /\ \E p \in PoolIds : sig \in pools[p].listeners
    /\ \E fails \in FailMaps : \E h \in {emit(Heap, sig, fails, 1)} :
           /\ Install(h, Null)
           /\ lastOp' = [NoOp EXCEPT !.op = sig, !.destroyed = Destroyed(h)]
    /\ UNCHANGED <<now, exited, args, keys, inflight>>

\* The process exits: the exit listeners run, and nothing runs after them.
Exit ==
    /\ ~exited
    /\ \E fails \in FailMaps : \E h \in {emit(Heap, "exit", fails, 1)} :
           /\ Install(h, Null)
           /\ lastOp' = [NoOp EXCEPT !.op = "exit", !.destroyed = Destroyed(h)]
    /\ exited' = TRUE
    /\ UNCHANGED <<now, args, keys, inflight>>

\* pool.getStats() on a pool object the caller holds.
GetStats(p) ==
    /\ ~exited
    /\ \E r \in {getStats(Heap, p, now)} :
           /\ WithinBounds(r.heap)
           /\ pools' = r.heap.pools
           /\ entries' = r.heap.entries
           /\ owner' = r.heap.owner
           /\ poolInstance' = r.heap.poolInstance
           /\ lastOp' = [NoOp EXCEPT !.op = "getStats", !.pool = p, !.stats = r.stats,
                                     !.destroyed = Destroyed(r.heap)]
    /\ UNCHANGED <<now, exited, returned, ops, args, keys, inflight>>

\* One input message handled by a node: configureS3 runs inside the handler's
\* try block, which reports what it throws.
ConfigureS3(awsConfig, msg) ==
    /\ ~exited
    /\ \E fail \in FailModes :
         \E r \in {configureS3(Heap, awsConfig, msg, now, fail)} :
             /\ Install(r.heap, r.result)
             /\ lastOp' = [NoOp EXCEPT !.op = "configureS3",
                                       !.pool = r.heap.poolInstance,
                                       !.result = r.result,
                                       !.threw = r.threw,
                                       !.destroyed = Destroyed(r.heap)]
    /\ UNCHANGED <<now, exited, args, keys, inflight>>

Next ==
    \/ Tick
    \/ \E a \in AwsConfigs, m \in Msgs : ConfigureS3(a, m)
    \/ \E o \in PoolOptions : GetPool(o)
    \/ \E c \in PoolConfigs : GetPooledS3Client(c)
    \/ ShutdownPool
    \/ \E p \in PoolIds, c \in PoolConfigs : GetClient(p, c)
    \/ \E p \in PoolIds : CleanupTimer(p)
    \/ \E p \in PoolIds : Clear(p)
    \/ \E p \in PoolIds : GetStats(p)
    \/ \E p \in PoolIds : Shutdown(p)
    \/ \E sig \in {"SIGINT", "SIGTERM"} : Signal(sig)
    \/ Exit

Spec == Init /\ [][Next]_vars

\* ------------------------------------------- requests in flight (aws-s3.js)
\* The input handler of a node up to its first suspension: configureS3, the
\* lookup of the command class (known: S3SDK has it), and s3.send(command), at
\* whose await the handler is suspended with the client it was given. When
\* configureS3 throws or the command class is missing the handler ends at once.
Input(awsConfig, msg, known) ==
    /\ ~exited
    /\ \E fail \in FailModes :
         \E r \in {configureS3(Heap, awsConfig, msg, now, fail)} :
             /\ Install(r.heap, r.result)
             /\ lastOp' = [NoOp EXCEPT !.op = "input",
                                       !.pool = r.heap.poolInstance,
                                       !.result = r.result,
                                       !.threw = r.threw,
                                       !.destroyed = Destroyed(r.heap)]
             /\ IF ~r.threw /\ known
                THEN /\ Len(inflight) < MaxInFlight
                     /\ inflight' = Append(inflight, r.result)
                ELSE inflight' = inflight
    /\ UNCHANGED <<now, exited, args, keys>>

\* The promise of s3.send settles for the i-th suspended handler, which runs to
\* its end: it sends its message and touches nothing of the pool.
SendCompletes(i) ==
    /\ ~exited
    /\ i \in DOMAIN inflight
    /\ inflight' = SubSeq(inflight, 1, i - 1) \o SubSeq(inflight, i + 1, Len(inflight))
    /\ lastOp' = [NoOp EXCEPT !.op = "sendCompletes", !.result = inflight[i]]
    /\ UNCHANGED <<now, pools, poolInstance, entries, owner, exited, returned, ops, args, keys>>

\* The nodes' requests together with the shared pool's timer, the close hook of
\* the runtime, and clear and shutdown called on the pool.
RaceNext ==
    \/ Tick
    \/ \E a \in AwsConfigs, m \in Msgs, known \in BOOLEAN : Input(a, m, known)
    \/ \E i \in 1..MaxInFlight : SendCompletes(i)
    \/ ShutdownPool
    \/ \E p \in PoolIds : CleanupTimer(p)
    \/ \E p \in PoolIds : Clear(p)
    \/ \E p \in PoolIds : Shutdown(p)

RaceSpec == Init /\ [][RaceNext]_vars

\* ------------------------------------------------ _generateKey on its own
KeyInit ==
    /\ now = 0
    /\ pools = <<>>
    /\ poolInstance = Null
    /\ entries = <<>>
    /\ owner = <<>>
    /\ exited = FALSE
    /\ lastOp = NoOp
    /\ returned = <<>>
    /\ inflight = <<>>
    /\ ops = 0
    /\ args \in Configurations \X Configurations
    /\ keys = <<>>

GenerateKeys ==
    /\ keys = <<>>
    /\ keys' = <<_generateKey(args[1]), _generateKey(args[2])>>
    /\ UNCHANGED <<now, pools, poolInstance, entries, owner, exited, lastOp, returned, ops, args, inflight>>

KeyNext == GenerateKeys

KeySpec == KeyInit /\ [][KeyNext]_vars

\* --------------------------------------------- the key getStats reports
\* The configurations getStats' key is examined on: as above, and with a region
\* name shorter than those of AWS.
REGION_EU == <<"e", "u">>
StatsConfigurations ==
    [region : {Some(US_EAST_1), Some(REGION_EU)},
     endpoint : Optional({ENDPOINT_H}),
     forcePathStyle : {Undefined, Some(TRUE)},
     tls : {Undefined, Some(FALSE)},
     credentials : Optional({[accessKeyId |-> ACCESS_A, secretAccessKey |-> SECRET_X],
                             [accessKeyId |-> ACCESS_B, secretAccessKey |-> SECRET_X],
                             [accessKeyId |-> ACCESS_A, secretAccessKey |-> SECRET_Y]})]

StatsInit ==
    /\ now = 0
    /\ pools = <<>>
    /\ poolInstance = Null
    /\ entries = <<>>
    /\ owner = <<>>
    /\ exited = FALSE
    /\ lastOp = NoOp
    /\ returned = <<>>
    /\ inflight = <<>>
    /\ ops = 0
    /\ args \in StatsConfigurations \X StatsConfigurations
    /\ keys = <<>>

\* Each configuration of args is stored by getClient in a pool of its own, under
\* this._generateKey(options), and getStats of that pool reports the entry's key.
ReportKeys ==
    /\ keys = <<>>
    /\ keys' = <<StatsKey(_generateKey(args[1])), StatsKey(_generateKey(args[2]))>>
    /\ UNCHANGED <<now, pools, poolInstance, entries, owner, exited, lastOp, returned, ops, args, inflight>>

StatsNext == ReportKeys

StatsSpec == StatsInit /\ [][StatsNext]_vars

\* ------------------------------------------------------------------ claims
\* A caller's get-or-create on pools[p] with configuration c: pool.getClient(c),
\* or getPooledS3Client(c) while pools[p] is the singleton.
Acquire(p, c) ==
    \/ GetClient(p, c)
    \/ (poolInstance = p /\ GetPooledS3Client(c))

Fingerprint(e) == GeneratedKey[entries[e].options]
Held(p, c) == GeneratedKey[c] \in DOMAIN pools[p].pool
EntryOf(p, c) == pools[p].pool[GeneratedKey[c]]
Age(e) == now - entries[e].createdAt
Teardowns == {"clear", "shutdown", "shutdownPool", "SIGINT", "SIGTERM", "exit"}

\* C1: a get-or-create for a configuration whose entry is at most ttl old returns
\* that entry's client, constructs no entry, leaves the Map as it is and raises the
\* entry's use counter by exactly one; and between such calls, any step that is
\* not a clear or shutdown keeps an entry that is still within its ttl in place.
C1_ReuseWithinTtl ==
    [][/\ \A p \in PoolIds, c \in PoolConfigs :
            (Acquire(p, c) /\ Held(p, c) /\ Age(EntryOf(p, c)) <= pools[p].ttl)
            => /\ lastOp'.result = entries[EntryOf(p, c)].client
               /\ Len(entries') = Len(entries)
               /\ pools'[p].pool = pools[p].pool
               /\ entries'[EntryOf(p, c)].useCount = entries[EntryOf(p, c)].useCount + 1
               /\ entries'[EntryOf(p, c)].createdAt = entries[EntryOf(p, c)].createdAt
               /\ ~entries'[EntryOf(p, c)].destroyed
       /\ \A p \in PoolIds : \A k \in DOMAIN pools[p].pool :
            (lastOp'.op \notin Teardowns /\ now' - entries[pools[p].pool[k]].createdAt <= pools[p].ttl)
            => /\ k \in DOMAIN pools'[p].pool
               /\ pools'[p].pool[k] = pools[p].pool[k]
               /\ entries'[pools[p].pool[k]].client = entries[pools[p].pool[k]].client
               /\ entries'[pools[p].pool[k]].useCount >= entries[pools[p].pool[k]].useCount
      ]_vars

\* A get-or-create has just returned an entry that an earlier call had created.
C1_Witness ==
    /\ lastOp.op \in {"getClient", "getPooledS3Client"}
    /\ lastOp.result \in DOMAIN entries
    /\ entries[lastOp.result].useCount >= 2
    /\ lastOp.destroyed = {}

\* C2: a get-or-create for a configuration whose stored entry is older than ttl
\* destroys that entry and takes it out of the Map, constructs one new entry with
\* another client, stores it under the same key and returns its client; the new
\* entry has createdAt equal to the time of the call and use counter 1.
C2_ReplaceExpired ==
    [][\A p \in PoolIds, c \in PoolConfigs :
            (Acquire(p, c) /\ Held(p, c) /\ Age(EntryOf(p, c)) > pools[p].ttl)
            => LET old == EntryOf(p, c)
                   new == pools'[p].pool[GeneratedKey[c]]
               IN  /\ entries'[old].destroyed
                   /\ old \notin MapValues(pools'[p].pool)
                   /\ Len(entries') = Len(entries) + 1
                   /\ new = Len(entries')
                   /\ DOMAIN pools'[p].pool = DOMAIN pools[p].pool
                   /\ lastOp'.result = entries'[new].client
                   /\ entries'[new].client # entries[old].client
                   /\ entries'[new].createdAt = now
                   /\ entries'[new].useCount = 1
                   /\ ~entries'[new].destroyed
      ]_vars

\* An expired entry has just been replaced, and its key is the only one ever used.
C2_Witness ==
    /\ lastOp.op \in {"getClient", "getPooledS3Client"}
    /\ lastOp.destroyed # {}
    /\ Len(entries) = 2
    /\ Len(pools) = 1
    /\ entries[2].useCount = 1 /\ entries[2].createdAt = now /\ now > 0

Live(e) == ~entries[e].destroyed

\* C3: among the entries pools[p] has constructed, at most one per fingerprint
\* is not destroyed, and the Map holds each key's entry under that entry's own
\* fingerprint; every get-or-create returns the client of the one entry the Map
\* holds for the call's fingerprint once the call has completed.
C3_OneLiveEntryPerKey ==
    /\ [](\A e1, e2 \in DOMAIN entries :
            (Live(e1) /\ Live(e2) /\ owner[e1] = owner[e2]
             /\ Fingerprint(e1) = Fingerprint(e2)) => e1 = e2)
    /\ [](\A p \in PoolIds : \A k \in DOMAIN pools[p].pool :
            /\ pools[p].pool[k] \in DOMAIN entries
            /\ owner[pools[p].pool[k]] = p
            /\ Fingerprint(pools[p].pool[k]) = k)
    /\ [][\A c \in PoolConfigs :
            ((\E p \in PoolIds : GetClient(p, c)) \/ GetPooledS3Client(c))
            => /\ GeneratedKey[c] \in DOMAIN pools'[lastOp'.pool].pool
               /\ lastOp'.result
                    = entries'[pools'[lastOp'.pool].pool[GeneratedKey[c]]].client
               /\ Cardinality({e \in DOMAIN entries' :
                                 /\ ~entries'[e].destroyed
                                 /\ owner'[e] = lastOp'.pool
                                 /\ GeneratedKey[entries'[e].options] = GeneratedKey[c]}) = 1
      ]_vars

\* Three calls for one never-seen fingerprint ran at the same instant and left
\* one entry.
C3_Witness ==
    /\ lastOp.op \in {"getClient", "getPooledS3Client"}
    /\ Len(entries) = 1
    /\ entries[1].useCount = 3
    /\ entries[1].createdAt = now /\ entries[1].lastUsedAt = now
    /\ Live(1)

\* C4: the Map of a pool never holds a destroyed entry, and no get-or-create
\* returns the client of an entry on which destroy() has run.
C4_NoDestroyedEntryServed ==
    /\ [](\A p \in PoolIds : \A k \in DOMAIN pools[p].pool :
            ~entries[pools[p].pool[k]].destroyed)
    /\ [][lastOp'.op \in {"getClient", "getPooledS3Client"}
            => /\ lastOp'.result \in DOMAIN entries'
               /\ entries'[lastOp'.result].client = lastOp'.result
               /\ ~entries'[lastOp'.result].destroyed
      ]_vars

\* A get-or-create has returned a live entry's client in a pool whose sweep,
\* clear or shutdown had destroyed an entry before.
C4_Witness ==
    /\ lastOp.op \in {"getClient", "getPooledS3Client"}
    /\ lastOp.destroyed = {}
    /\ Live(lastOp.result)
    /\ \E e \in DOMAIN entries : ~Live(e) /\ owner[e] = lastOp.pool

\* C5: every entry ever constructed is the entry its pool's Map holds under the
\* entry's fingerprint, or destroy() has run on it.
C5_NoEntryLeak ==
    \A e \in DOMAIN entries :
        \/ entries[e].destroyed
        \/ /\ owner[e] \in PoolIds
           /\ Fingerprint(e) \in DOMAIN pools[owner[e]].pool
           /\ pools[owner[e]].pool[Fingerprint(e)] = e

\* shutdownPool has just discarded two entries of the singleton.
C5_Witness ==
    /\ lastOp.op = "shutdownPool"
    /\ Cardinality(lastOp.destroyed) = 2
    /\ \A e \in lastOp.destroyed : entries[e].destroyed

\* C6: a run of cleanup on pools[p] removes from the Map, and destroys, every
\* entry whose age exceeds ttl, and leaves every other entry under its key with
\* its fields unchanged; it adds no key.
C6_SweepRemovesExactlyExpired ==
    [][\A p \in PoolIds :
            CleanupTimer(p)
            => /\ DOMAIN pools'[p].pool \subseteq DOMAIN pools[p].pool
               /\ \A k \in DOMAIN pools[p].pool :
                    LET e == pools[p].pool[k]
                    IN  IF Age(e) > pools[p].ttl
                        THEN /\ k \notin DOMAIN pools'[p].pool
                             /\ entries'[e].destroyed
                        ELSE /\ k \in DOMAIN pools'[p].pool
                             /\ pools'[p].pool[k] = e
                             /\ entries'[e] = entries[e]
      ]_vars

\* A sweep has just removed one entry and kept another of the same pool.
C6_Witness ==
    /\ lastOp.op = "cleanupTimer"
    /\ lastOp.destroyed # {}
    /\ pools[lastOp.pool].pool # EmptyMap

\* C7: shutdown on pools[p] leaves its Map empty, every entry it held destroyed
\* and its interval cleared; a cleared interval is never set again and its
\* callback never runs; a shutdown that follows a shutdown of the same pool
\* changes nothing.
C7_ShutdownFinal ==
    /\ [][\A p \in PoolIds :
            Shutdown(p)
            => /\ pools'[p].pool = EmptyMap
               /\ \A e \in MapValues(pools[p].pool) : entries'[e].destroyed
               /\ ~pools'[p].cleanupTimer
      ]_vars
    /\ [][\A p \in PoolIds :
            /\ ~pools[p].cleanupTimer => ~pools'[p].cleanupTimer
            /\ (~pools[p].cleanupTimer /\ lastOp'.pool = p) => lastOp'.op # "cleanupTimer"
      ]_vars
    /\ [][\A p \in PoolIds :
            (Shutdown(p) /\ lastOp.op = "shutdown" /\ lastOp.pool = p)
            => /\ pools' = pools
               /\ entries' = entries
               /\ poolInstance' = poolInstance
               /\ lastOp'.destroyed = {}
      ]_vars

\* shutdown has run twice in a row on a pool that held an entry.
C7_Witness ==
    /\ lastOp.op = "shutdown"
    /\ lastOp.destroyed = {}
    /\ ~pools[lastOp.pool].cleanupTimer
    /\ pools[lastOp.pool].pool = EmptyMap
    /\ \E e \in DOMAIN entries : ~Live(e) /\ owner[e] = lastOp.pool
    /\ ops >= 3

\* C8 as stated: after shutdownPool, SIGINT or SIGTERM has torn the shared pool
\* down, the next getPooledS3Client constructs a pool object that did not exist
\* before, with an empty Map but for the new entry and with a running interval.
C8_FreshInstanceAfterTeardown ==
    [][\A c \in PoolConfigs :
            (GetPooledS3Client(c) /\ lastOp.op \in {"shutdownPool", "SIGINT", "SIGTERM"})
            => /\ poolInstance' \notin PoolIds
               /\ poolInstance' = Len(pools')
               /\ pools'[poolInstance'].cleanupTimer
               /\ MapValues(pools'[poolInstance'].pool) = {lastOp'.result}
      ]_vars

\* The effective values of a configuration: path-style false, encryption true
\* and no endpoint when absent.
Effective(o) ==
    [region |-> Val(o.region),
     endpoint |-> o.endpoint,
     forcePathStyle |-> IF IsDefined(o.forcePathStyle) THEN Val(o.forcePathStyle) ELSE FALSE,
     tls |-> IF IsDefined(o.tls) THEN Val(o.tls) ELSE TRUE,
     credentials |-> o.credentials]

\* C9: two configurations get equal fingerprints exactly when their effective
\* region, endpoint, path-style flag, encryption flag and credential pair are
\* equal; so configurations that differ in access key id or secret never share
\* a fingerprint.
C9_FingerprintInjective ==
    keys # <<>> => ((keys[1] = keys[2]) <=> (Effective(args[1]) = Effective(args[2])))

\* Two configurations that differ only in the secret have got their fingerprints.
C9_Witness ==
    /\ keys # <<>>
    /\ IsDefined(args[1].credentials) /\ IsDefined(args[2].credentials)
    /\ Val(args[1].credentials).secretAccessKey # Val(args[2].credentials).secretAccessKey
    /\ [args[1] EXCEPT !.credentials = Undefined] = [args[2] EXCEPT !.credentials = Undefined]
    /\ Val(args[1].credentials).accessKeyId = Val(args[2].credentials).accessKeyId
    /\ keys[1] # keys[2]

\* C10 as stated: a get-or-create whose configuration has no region is never
\* served the client built for a configuration that names a region, nor the
\* other way round.
C10_NoDefaultRegion ==
    [][\A c \in PoolConfigs :
            ((\E p \in PoolIds : GetClient(p, c)) \/ GetPooledS3Client(c))
            => (IsDefined(entries'[lastOp'.result].options.region) <=> IsDefined(c.region))
      ]_vars

\* C13 as stated: once destroy() has run on an entry, neither of its two agents
\* is left open, whether or not closing an agent threw.
C13_BothAgentsClosed ==
    \A e \in DOMAIN entries :
        entries[e].destroyed
        => (entries[e].httpsAgent # "open" /\ entries[e].httpAgent # "open")

\* C14 as stated (its safety half): the shared pool never holds entries while its
\* sweep interval is not running.
C14_SweepRunsWhileStoring ==
    poolInstance # Null
    => (pools[poolInstance].pool # EmptyMap => pools[poolInstance].cleanupTimer)

\* C11: a request whose node configuration and message give configureS3 no
\* region value throws, returns no client, and changes nothing of the pool: no
\* pool object is constructed, the singleton, every Map and every entry stay as
\* they were. A request that does give a region does not throw and is returned
\* the client of a live entry that the shared pool holds, whatever failed before.
C11_MissingRegionRejected ==
    [][\A a \in AwsConfigs, m \in Msgs :
          (lastOp'.op = "configureS3" /\ ConfigureS3(a, m))
          => IF ~IsDefined(regionValue(a, m))
             THEN /\ lastOp'.threw
                  /\ lastOp'.result = Null
                  /\ poolInstance' = poolInstance
                  /\ pools' = pools
                  /\ entries' = entries
                  /\ owner' = owner
                  /\ returned' = returned
             ELSE /\ ~lastOp'.threw
                  /\ poolInstance' \in DOMAIN pools'
                  /\ lastOp'.result \in MapValues(pools'[poolInstance'].pool)
                  /\ ~entries'[lastOp'.result].destroyed
      ]_vars

\* A request with no region has just failed while the shared pool held an entry.
C11_Witness ==
    /\ lastOp.op = "configureS3"
    /\ lastOp.threw
    /\ lastOp.result = Null
    /\ poolInstance # Null
    /\ pools[poolInstance].pool # EmptyMap

\* An agent's destroy() threw during the step: the step ran destroy() on an entry
\* and left one of its agents "failed".
AgentThrew ==
    \E e \in lastOp'.destroyed :
        "failed" \in {entries'[e].httpsAgent, entries'[e].httpAgent}

\* C12: when an agent's destroy() throws during getClient, cleanup, clear or
\* shutdown, the operation does not throw and finishes its work: no entry it
\* destroyed stays in a Map; clear and shutdown leave the Map empty and every
\* entry it held destroyed; cleanup removes every expired entry and keeps the
\* others; getClient stores a new live entry and returns its client.
C12_DestroyErrorsSwallowed ==
    [][AgentThrew
       => /\ ~lastOp'.threw
          /\ \A p \in DOMAIN pools' : MapValues(pools'[p].pool) \cap lastOp'.destroyed = {}
          /\ lastOp'.op \in {"clear", "shutdown", "shutdownPool"}
             => /\ pools'[lastOp'.pool].pool = EmptyMap
                /\ \A e \in MapValues(pools[lastOp'.pool].pool) : entries'[e].destroyed
          /\ lastOp'.op = "cleanupTimer"
             => \A k \in DOMAIN pools[lastOp'.pool].pool :
                   LET e == pools[lastOp'.pool].pool[k]
                   IN  IF Age(e) > pools[lastOp'.pool].ttl
                       THEN k \notin DOMAIN pools'[lastOp'.pool].pool /\ entries'[e].destroyed
                       ELSE k \in DOMAIN pools'[lastOp'.pool].pool /\ entries'[e] = entries[e]
          /\ lastOp'.op \in {"getClient", "getPooledS3Client", "configureS3"}
             => /\ lastOp'.result = Len(entries')
                /\ Len(entries') = Len(entries) + 1
                /\ lastOp'.result \in MapValues(pools'[lastOp'.pool].pool)
                /\ ~entries'[lastOp'.result].destroyed
                /\ entries'[lastOp'.result].httpsAgent = "open"
                /\ entries'[lastOp'.result].httpAgent = "open"
      ]_vars

\* A sweep has just removed two expired entries, and an agent of one of them
\* threw when it was destroyed.
C12_Witness ==
    /\ lastOp.op = "cleanupTimer"
    /\ Cardinality(lastOp.destroyed) = 2
    /\ \E e \in lastOp.destroyed :
          "failed" \in {entries[e].httpsAgent, entries[e].httpAgent}
    /\ \A e \in lastOp.destroyed : entries[e].destroyed
    /\ pools[lastOp.pool].pool = EmptyMap
    /\ ~lastOp.threw

\* C15: clear on pools[p] leaves its Map empty and every entry it held
\* destroyed, and leaves the pool's interval, its listeners, its ttl and the
\* singleton as they were; a get-or-create that follows the clear constructs a
\* new entry, stores it in that same pool and returns its client; and while the
\* interval runs, its callback stays enabled and removes that entry once it is
\* older than ttl.
C15_ClearKeepsSweep ==
    /\ [][\A p \in PoolIds :
            (lastOp'.op = "clear" /\ Clear(p))
            => /\ pools'[p].pool = EmptyMap
               /\ \A e \in MapValues(pools[p].pool) : entries'[e].destroyed
               /\ pools'[p].cleanupTimer = pools[p].cleanupTimer
               /\ pools'[p].listeners = pools[p].listeners
               /\ pools'[p].ttl = pools[p].ttl
               /\ Len(pools') = Len(pools)
               /\ poolInstance' = poolInstance
               /\ Len(entries') = Len(entries)
      ]_vars
    /\ [][\A p \in PoolIds, c \in PoolConfigs :
            (lastOp.op = "clear" /\ lastOp.pool = p /\ Acquire(p, c))
            => /\ Len(entries') = Len(entries) + 1
               /\ lastOp'.result = Len(entries')
               /\ pools'[p].pool = MapSet(EmptyMap, GeneratedKey[c], Len(entries'))
               /\ ~entries'[Len(entries')].destroyed
               /\ entries'[Len(entries')].createdAt = now
               /\ pools'[p].cleanupTimer = pools[p].cleanupTimer
      ]_vars
    /\ [][\A p \in PoolIds :
            (lastOp'.op = "cleanupTimer" /\ lastOp'.pool = p)
            => /\ pools[p].cleanupTimer
               /\ \A k \in DOMAIN pools[p].pool :
                    Age(pools[p].pool[k]) > pools[p].ttl
                    => k \notin DOMAIN pools'[p].pool /\ entries'[pools[p].pool[k]].destroyed
      ]_vars

\* After a clear of a pool that held an entry, a get-or-create built a second
\* entry in the same pool, and the sweep of that pool has just evicted it.
C15_Witness ==
    /\ lastOp.op = "cleanupTimer"
    /\ lastOp.destroyed = {2}
    /\ Len(entries) = 2
    /\ Len(pools) = 1
    /\ owner = <<1, 1>>
    /\ entries[1].destroyed /\ entries[2].destroyed
    /\ pools[1].cleanupTimer
    /\ pools[1].pool = EmptyMap
    /\ ops = 4

\* C17: getStats on pools[p] changes no pool, no Map, no entry and not the
\* singleton, and runs destroy() on nothing, also when an entry it reports is
\* expired; its totalConnections is the number of keys of the Map, its
\* connections has that many records, and each stored entry has exactly one
\* record, which carries the entry's age, idle time, use counter and expiry.
C17_StatsReadOnly ==
    [][\A p \in PoolIds :
          (lastOp'.op = "getStats" /\ GetStats(p))
          => LET stats == lastOp'.stats
                 store == pools[p].pool
             IN  /\ pools' = pools
                 /\ entries' = entries
                 /\ owner' = owner
                 /\ poolInstance' = poolInstance
                 /\ lastOp'.destroyed = {}
                 /\ stats.totalConnections = Cardinality(DOMAIN store)
                 /\ Len(stats.connections) = stats.totalConnections
                 /\ \A k \in DOMAIN store :
                      LET recs == {i \in DOMAIN stats.connections :
                                      stats.connections[i].key = StatsKey(k)}
                      IN  /\ Cardinality(recs) = 1
                          /\ \A i \in recs :
                               /\ stats.connections[i].age = now - entries[store[k]].createdAt
                               /\ stats.connections[i].lastUsed = now - entries[store[k]].lastUsedAt
                               /\ stats.connections[i].useCount = entries[store[k]].useCount
                               /\ stats.connections[i].isExpired
                                    <=> (now - entries[store[k]].createdAt > pools[p].ttl)
      ]_vars

\* getStats has just reported two entries, one of them expired, and both are
\* still in the Map and not destroyed.
C17_Witness ==
    /\ lastOp.op = "getStats"
    /\ lastOp.stats.totalConnections = 2
    /\ \E i \in DOMAIN lastOp.stats.connections : lastOp.stats.connections[i].isExpired
    /\ \E i \in DOMAIN lastOp.stats.connections : ~lastOp.stats.connections[i].isExpired
    /\ Cardinality(DOMAIN pools[lastOp.pool].pool) = 2
    /\ \A e \in MapValues(pools[lastOp.pool].pool) : ~entries[e].destroyed

\* C16 as stated: the key getStats reports for an entry carries nothing of the
\* credentials of the entry's configuration: two configurations that differ
\* only in the access key id or the secret are reported with the same key.
C16_NoCredentialInSnapshot ==
    (/\ keys # <<>>
     /\ [args[1] EXCEPT !.credentials = Undefined]
          = [args[2] EXCEPT !.credentials = Undefined]
     /\ IsDefined(args[1].credentials)
     /\ IsDefined(args[2].credentials))
    => keys[1] = keys[2]

\* The configurations of the runs that name a region.
RegionConfigs == {c \in KeyedConfigs : IsDefined(c.region)}

\* C18: in one pool, two different configurations that name a region are held
\* as two entries with two clients; and a get-or-create, whether it reuses,
\* creates or replaces, leaves every entry stored under another key, or in
\* another pool, under its key with all its fields unchanged and not destroyed.
C18_IndependentEntries ==
    /\ [](\A p \in PoolIds : \A c1, c2 \in RegionConfigs :
            (c1 # c2 /\ Held(p, c1) /\ Held(p, c2))
            => /\ EntryOf(p, c1) # EntryOf(p, c2)
               /\ entries[EntryOf(p, c1)].client # entries[EntryOf(p, c2)].client
               /\ ~entries[EntryOf(p, c1)].destroyed
               /\ ~entries[EntryOf(p, c2)].destroyed)
    /\ [][lastOp'.op \in {"getClient", "getPooledS3Client", "configureS3"}
            /\ lastOp'.result # Null
          => \A p \in PoolIds : \A k \in DOMAIN pools[p].pool :
                (p # lastOp'.pool
                 \/ k # GeneratedKey[entries'[lastOp'.result].options])
                => /\ k \in DOMAIN pools'[p].pool
                   /\ pools'[p].pool[k] = pools[p].pool[k]
                   /\ entries'[pools[p].pool[k]] = entries[pools[p].pool[k]]
                   /\ ~entries'[pools[p].pool[k]].destroyed
                   /\ pools[p].pool[k] # lastOp'.result
      ]_vars

\* A get-or-create has just replaced the expired entry of one configuration
\* while the same pool holds a younger entry of another, which is unchanged.
C18_Witness ==
    /\ lastOp.op \in {"getClient", "getPooledS3Client"}
    /\ lastOp.destroyed # {}
    /\ \E e \in MapValues(pools[lastOp.pool].pool) :
          /\ e # lastOp.result
          /\ entries[e].createdAt = 1
          /\ entries[e].lastUsedAt = 1
          /\ entries[e].useCount = 1
          /\ IsDefined(entries[e].options.region)
          /\ ~entries[e].destroyed
    /\ IsDefined(entries[lastOp.result].options.region)
    /\ entries[lastOp.result].createdAt = 2

\* C19: what a get-or-create and a sweep do with a stored entry depends on the
\* entry's age alone: the entry is reused while now - createdAt <= ttl (at
\* age = ttl as well) and is destroyed and replaced, or swept, when
\* now - createdAt > ttl, however recently it was used; no step changes the
\* createdAt of an entry that stays in the Map; so a client handed out is never
\* that of an entry older than ttl.
C19_ExpiryByAge ==
    /\ [][\A p \in PoolIds : \A k \in DOMAIN pools[p].pool :
            LET e == pools[p].pool[k]
                expired == now - entries[e].createdAt > pools[p].ttl
            IN  /\ (/\ lastOp'.op \in {"getClient", "getPooledS3Client", "configureS3"}
                    /\ lastOp'.result # Null
                    /\ lastOp'.pool = p
                    /\ GeneratedKey[entries'[lastOp'.result].options] = k)
                   => IF expired
                      THEN lastOp'.result # e /\ entries'[e].destroyed
                      ELSE /\ lastOp'.result = e
                           /\ entries'[e].lastUsedAt = now
                           /\ ~entries'[e].destroyed
                /\ (lastOp'.op = "cleanupTimer" /\ lastOp'.pool = p)
                   => (expired <=> k \notin DOMAIN pools'[p].pool)
                /\ (k \in DOMAIN pools'[p].pool /\ pools'[p].pool[k] = e)
                   => entries'[e].createdAt = entries[e].createdAt
      ]_vars
    /\ [](lastOp.op \in {"getClient", "getPooledS3Client", "configureS3"}
            /\ lastOp.result # Null
          => now - entries[lastOp.result].createdAt <= pools[lastOp.pool].ttl)

\* An entry has just been reused for the second time at the instant its age
\* equals the ttl.
C19_Witness ==
    /\ lastOp.op \in {"getClient", "getPooledS3Client"}
    /\ lastOp.destroyed = {}
    /\ entries[lastOp.result].useCount = 3
    /\ entries[lastOp.result].lastUsedAt = now
    /\ now - entries[lastOp.result].createdAt = pools[lastOp.pool].ttl

\* C20: every entry a Map holds has a use counter of at least 1, equal to the
\* number of get-or-create calls that returned its client, and
\* createdAt <= lastUsedAt; and a step changes the use counter or the lastUsedAt
\* of an entry that stays in its Map only if it is a get-or-create that returns
\* that entry's client.
C20_UseCountBookkeeping ==
    /\ [](\A e \in Stored :
            /\ entries[e].useCount >= 1
            /\ e \in DOMAIN returned
            /\ entries[e].useCount = returned[e]
            /\ entries[e].createdAt <= entries[e].lastUsedAt
            /\ entries[e].lastUsedAt <= now)
    /\ [][\A e \in Stored :
            (/\ \E p \in PoolIds : e \in MapValues(pools'[p].pool)
             /\ \/ entries'[e].useCount # entries[e].useCount
                \/ entries'[e].lastUsedAt # entries[e].lastUsedAt)
            => /\ lastOp'.op \in {"getClient", "getPooledS3Client", "configureS3"}
               /\ lastOp'.result = e
               /\ entries'[e].useCount = entries[e].useCount + 1
      ]_vars

\* A stored entry has been returned three times, the last time after its
\* creation.
C20_Witness ==
    \E e \in Stored :
        /\ entries[e].useCount = 3
        /\ returned[e] = 3
        /\ entries[e].createdAt < entries[e].lastUsedAt
        /\ lastOp.op \in {"cleanupTimer", "getStats"}

\* C22: at most one pool object has a running interval, and it is the
\* singleton; getPool while the singleton exists returns it and constructs
\* nothing, whatever options it is given; getPooledS3Client uses the singleton
\* that exists; only shutdownPool makes the module forget its singleton, and
\* shutdownPool with no singleton changes nothing.
C22_Singleton ==
    /\ [](/\ Cardinality({p \in PoolIds : pools[p].cleanupTimer}) <= 1
          /\ \A p \in PoolIds : pools[p].cleanupTimer => poolInstance = p
          /\ poolInstance # Null => poolInstance \in PoolIds)
    /\ [][/\ (lastOp'.op \in {"getPool", "getPooledS3Client"} /\ poolInstance # Null)
             => /\ lastOp'.pool = poolInstance
                /\ poolInstance' = poolInstance
                /\ Len(pools') = Len(pools)
                /\ pools'[poolInstance].ttl = pools[poolInstance].ttl
                /\ pools'[poolInstance].cleanupTimer = pools[poolInstance].cleanupTimer
          /\ (lastOp'.op \in {"getPool", "getPooledS3Client"} /\ poolInstance = Null)
             => /\ Len(pools') = Len(pools) + 1
                /\ poolInstance' = Len(pools')
                /\ lastOp'.pool = poolInstance'
                /\ pools'[poolInstance'].cleanupTimer
          /\ (poolInstance # Null /\ poolInstance' # poolInstance)
             => /\ lastOp'.op = "shutdownPool"
                /\ poolInstance' = Null
                /\ ~pools'[poolInstance].cleanupTimer
                /\ pools'[poolInstance].pool = EmptyMap
          /\ (lastOp'.op = "shutdownPool" /\ poolInstance = Null)
             => /\ pools' = pools
                /\ entries' = entries
                /\ poolInstance' = Null
                /\ lastOp'.destroyed = {}
      ]_vars

\* After shutdownPool a second singleton was constructed and has served a
\* client, and getPool has just returned that same singleton.
C22_Witness ==
    /\ lastOp.op = "getPool"
    /\ Len(pools) = 2
    /\ poolInstance = 2
    /\ lastOp.pool = 2
    /\ ~pools[1].cleanupTimer
    /\ pools[2].cleanupTimer
    /\ pools[2].pool # EmptyMap

\* C21: nothing the pool does depends on the requests in flight. While a
\* handler is suspended in s3.send on the client of a stored entry, a sweep or a
\* get-or-create that finds the entry older than ttl, and a clear, shutdown or
\* shutdownPool of its pool, run destroy() on that entry and drop it from the
\* Map, and the handler stays suspended on the client of the destroyed entry.
C21_HandlesNotTracked ==
    [][\A i \in DOMAIN inflight :
          LET e == inflight[i]
              p == owner[e]
              expired == now - entries[e].createdAt > pools[p].ttl
          IN  (/\ e \in MapValues(pools[p].pool)
               /\ \/ lastOp'.op = "cleanupTimer" /\ lastOp'.pool = p /\ expired
                  \/ lastOp'.op \in {"clear", "shutdown"} /\ lastOp'.pool = p
                  \/ lastOp'.op = "shutdownPool" /\ poolInstance = p
                  \/ /\ lastOp'.op = "input" /\ lastOp'.pool = p /\ expired
                     /\ lastOp'.result # Null
                     /\ GeneratedKey[entries'[lastOp'.result].options] = Fingerprint(e))
              => /\ entries'[e].destroyed
                 /\ entries'[e].httpsAgent # "open"
                 /\ e \notin MapValues(pools'[p].pool)
                 /\ lastOp'.result # e
                 /\ \E j \in DOMAIN inflight' : inflight'[j] = e
      ]_vars

\* A handler is suspended in s3.send on a client whose entry the sweep has just
\* destroyed, both agents closed.
C21_Witness ==
    /\ lastOp.op = "cleanupTimer"
    /\ \E i \in DOMAIN inflight :
          /\ inflight[i] \in lastOp.destroyed
          /\ entries[inflight[i]].destroyed
          /\ entries[inflight[i]].httpsAgent = "destroyed"
          /\ entries[inflight[i]].httpAgent = "destroyed"

====
